---- MODULE Spec2Model ----
(***************************************************************************)
(* Model of the hover / drop-zone classification engine of react-page      *)
(* (packages/core/src/service/hover/index.ts).                             *)
(*                                                                         *)
(* Numbers.  The code works on JavaScript doubles.  The model works on     *)
(* exact rationals: a pointer coordinate is an integer number of 1/Sub      *)
(* pixels, a room dimension is an integer number of pixels, and a scale is  *)
(* the pair <<n, d>> standing for n / d pixels (room.width / cells).  On    *)
(* these inputs every quotient the code floors or rounds is decided by      *)
(* integer arithmetic.  Math.floor is floor division, Math.round is         *)
(* "nearest integer, halves towards +infinity".                             *)
(***************************************************************************)
EXTENDS Integers, Sequences, FiniteSets, TLC

VARIABLES
    last,    \* the module-level memo `last`: matrix name -> null or key
    filler,  \* history: per matrix name, the call that last ran an interpreter
    call,    \* the most recent hover() invocation and what it did
    event,   \* the arguments of the most recent (or first pending) hover()
    lv       \* the computeLevel harness: inputs and results

vars == <<last, filler, call, event, lv>>

(***************************************************************************)
(* Bounds of the model.                                                    *)
(***************************************************************************)
Sub == 2
Margin == 3
MaxLevel == 3

(***************************************************************************)
(* Zone classes and the default matrices.                                  *)
(***************************************************************************)
classes ==
    [NO |-> 0,
     C1 |-> 10, C2 |-> 11, C3 |-> 12, C4 |-> 13,
     AH |-> 200, AA |-> 201,
     BH |-> 210, BA |-> 211,
     LH |-> 220, LA |-> 221,
     RH |-> 230, RA |-> 231,
     IL |-> 300, IR |-> 301]

c == classes

defaultMatrices ==
    ("6x6" :> <<
        <<c.C1, c.AA, c.AA, c.AA, c.AA, c.C2>>,
        <<c.LA, c.IL, c.AH, c.AH, c.IR, c.RA>>,
        <<c.LA, c.LH, c.NO, c.NO, c.RH, c.RA>>,
        <<c.LA, c.LH, c.NO, c.NO, c.RH, c.RA>>,
        <<c.LA, c.C4, c.BH, c.BH, c.C3, c.RA>>,
        <<c.C4, c.BA, c.BA, c.BA, c.BA, c.C3>> >>)
    @@
    ("10x10" :> <<
        <<c.C1, c.AA, c.AA, c.AA, c.AA, c.AA, c.AA, c.AA, c.AA, c.C2>>,
        <<c.LA, c.IL, c.IL, c.IL, c.AH, c.AH, c.IR, c.IR, c.IR, c.RA>>,
        <<c.LA, c.IL, c.IL, c.IL, c.AH, c.AH, c.IR, c.IR, c.IR, c.RA>>,
        <<c.LA, c.IL, c.IL, c.IL, c.AH, c.AH, c.IR, c.IR, c.IR, c.RA>>,
        <<c.LA, c.LH, c.LH, c.LH, c.C1, c.C2, c.RH, c.RH, c.RH, c.RA>>,
        <<c.LA, c.LH, c.LH, c.LH, c.C4, c.C3, c.RH, c.RH, c.RH, c.RA>>,
        <<c.LA, c.LH, c.LH, c.C4, c.BH, c.BH, c.C3, c.IR, c.RH, c.RA>>,
        <<c.LA, c.LH, c.C4, c.BH, c.BH, c.BH, c.BH, c.C3, c.RH, c.RA>>,
        <<c.LA, c.C4, c.BH, c.BH, c.BH, c.BH, c.BH, c.BH, c.C3, c.RA>>,
        <<c.C4, c.BA, c.BA, c.BA, c.BA, c.BA, c.BA, c.BA, c.BA, c.C3>> >>)
    @@
    ("10x10-no-inline" :> <<
        <<c.C1, c.AA, c.AA, c.AA, c.AA, c.AA, c.AA, c.AA, c.AA, c.C2>>,
        <<c.LA, c.C1, c.AH, c.AH, c.AH, c.AH, c.AH, c.AH, c.C2, c.RA>>,
        <<c.LA, c.LH, c.C1, c.AH, c.AH, c.AH, c.AH, c.C2, c.RH, c.RA>>,
        <<c.LA, c.LH, c.LH, c.C1, c.AH, c.AH, c.C2, c.RH, c.RH, c.RA>>,
        <<c.LA, c.LH, c.LH, c.LH, c.C1, c.C2, c.RH, c.RH, c.RH, c.RA>>,
        <<c.LA, c.LH, c.LH, c.LH, c.C4, c.C3, c.RH, c.RH, c.RH, c.RA>>,
        <<c.LA, c.LH, c.LH, c.C4, c.BH, c.BH, c.C3, c.RH, c.RH, c.RA>>,
        <<c.LA, c.LH, c.C4, c.BH, c.BH, c.BH, c.BH, c.C3, c.RH, c.RA>>,
        <<c.LA, c.C4, c.BH, c.BH, c.BH, c.BH, c.BH, c.BH, c.C3, c.RA>>,
        <<c.C4, c.BA, c.BA, c.BA, c.BA, c.BA, c.BA, c.BA, c.BA, c.C3>> >>)

(***************************************************************************)
(* Number helpers.  A rational is a pair <<n, d>> with d > 0.              *)
(***************************************************************************)
\* Math.floor(n / d)
MathFloor(n, d) == n \div d

\* Math.round(n / d): the nearest integer, a half rounds up
MathRound(n, d) == (2 * n + d) \div (2 * d)

RECURSIVE Pow2(_)
Pow2(n) == IF n <= 0 THEN 1 ELSE 2 * Pow2(n - 1)

(***************************************************************************)
(* Nodes.  inline is "none" (null / undefined), "left" or "right";         *)
(* hasInlineNeighbour is 0 (undefined) or the id of the neighbour.  A row   *)
(* carries no inline attributes and no content plugin.                      *)
(***************************************************************************)
isRow(node) == node.kind = "row"

\* utils/deepEquals: structural equality
deepEquals(a, b) == a = b

(***************************************************************************)
(* Scale calculator and cell locator.                                      *)
(***************************************************************************)
getRoomScale(room, matrix) ==
    LET rows == Len(matrix)
        cells == Len(matrix[1])
    IN  [x |-> <<room.width, cells>>, y |-> <<room.height, rows>>]

\* mouse.x / scale.x = (mouse.x / Sub) / (n / d) = (mouse.x * d) / (Sub * n)
getMouseHoverCell(mouse, scale) ==
    [cell |-> MathFloor(mouse.x * scale.x[2], Sub * scale.x[1]),
     row  |-> MathFloor(mouse.y * scale.y[2], Sub * scale.y[1])]

\* mutant: the two clamping targets exchanged
clampHoverCell_swapped(hoverCell, rows, cells) ==
    [row  |-> IF hoverCell.row >= rows THEN 0
              ELSE IF hoverCell.row < 0 THEN rows - 1 ELSE hoverCell.row,
     cell |-> IF hoverCell.cell >= cells THEN 0
              ELSE IF hoverCell.cell < 0 THEN cells - 1 ELSE hoverCell.cell]

\* lines 197-207 of computeHover: the index is clamped into the matrix
clampHoverCell(hoverCell, rows, cells) ==
    [row  |-> IF hoverCell.row >= rows THEN rows - 1
              ELSE IF hoverCell.row < 0 THEN 0 ELSE hoverCell.row,
     cell |-> IF hoverCell.cell >= cells THEN cells - 1
              ELSE IF hoverCell.cell < 0 THEN 0 ELSE hoverCell.cell]

\* mutant: Math.floor in place of Math.round
relativeMousePosition_floor(mouse, position, scale) ==
    [x |-> MathFloor(mouse.x * scale.x[2] - position.cell * scale.x[1] * Sub,
                     Sub * scale.x[2]),
     y |-> MathFloor(mouse.y * scale.y[2] - position.row * scale.y[1] * Sub,
                     Sub * scale.y[2])]

\* mouse.x - position.cell * scale.x
\*   = (mouse.x * d - position.cell * n * Sub) / (Sub * d)
relativeMousePosition(mouse, position, scale) ==
    [x |-> MathRound(mouse.x * scale.x[2] - position.cell * scale.x[1] * Sub,
                     Sub * scale.x[2]),
     y |-> MathRound(mouse.y * scale.y[2] - position.row * scale.y[1] * Sub,
                     Sub * scale.y[2])]

(***************************************************************************)
(* Level resolver.  size is a rational <<n, d>>, position an integer.      *)
(* In the loop every quantity is kept as an integer multiple of            *)
(* 1 / (d * 2^(levels+1)), the unit in which all the halvings are exact.   *)
(***************************************************************************)
RECURSIVE levelLoop(_, _, _, _, _, _)
levelLoop(i, step, current, levels, position, unit) ==
    IF i > levels THEN levels
    ELSE LET next == step + current \div 2
         IN  IF /\ position * unit >= step + i * 2 * unit
                /\ position * unit < next + (i + 1) * 2 * unit
             THEN i
             ELSE levelLoop(i + 1, next, current \div 2, levels, position, unit)

computeLevel(size, levels, position) ==
    IF size[1] <= (levels + 1) * 2 * size[2]
    THEN \* position / (size / levels); a division by Infinity when levels = 0
         IF levels = 0 THEN 0
         ELSE MathRound(position * levels * size[2], size[1])
    ELSE LET unit == size[2] * Pow2(levels + 1)
             spare == (size[1] - (levels + 1) * 2 * size[2]) * Pow2(levels + 1)
         IN  levelLoop(0, 0, spare, levels, position, unit)

(***************************************************************************)
(* Action dispatch.  A call of a method of the action-dispatch object is   *)
(* recorded as the method's name and its arguments; an interpreter yields  *)
(* the sequence of the calls it makes.                                     *)
(***************************************************************************)
Act(method, args) == [method |-> method, args |-> args]

computeHorizontal(mouse, position, hover, scale, level, inv) ==
    LET x == relativeMousePosition(mouse, position, scale).x
        at == computeLevel(scale.x, level, x)
        at1 == IF hover.inline # "none" /\ at = 0 THEN 1 ELSE at
    IN  IF isRow(hover) THEN level
        ELSE IF inv THEN level - at1 ELSE at1

computeVertical(level, mouse, hover, position, scale, inv) ==
    LET y == relativeMousePosition(mouse, position, scale).y
        at == computeLevel(scale.y, level, y)
        at1 == IF hover.inline # "none" /\ at = 0 THEN 1 ELSE at
    IN  IF isRow(hover) THEN level
        ELSE IF inv THEN level - at1 ELSE at1

getDropLevel(hover) == IF ~isRow(hover) /\ hover.inline # "none" THEN 1 ELSE 0

cbNO(item, hover, ctx) == <<Act("clear", <<>>)>>

\* mutant: the `return` before leftOf is missing
cbC1_noReturn(item, hover, ctx) ==
    LET mouse == relativeMousePosition(ctx.mouse, ctx.position, ctx.scale)
        level == getDropLevel(hover)
    IN  IF mouse.x < mouse.y
        THEN <<Act("leftOf", <<item.id, hover.id, level>>),
               Act("above", <<item.id, hover.id, level>>)>>
        ELSE <<Act("above", <<item.id, hover.id, level>>)>>

cbC1(item, hover, ctx) ==
    LET mouse == relativeMousePosition(ctx.mouse, ctx.position, ctx.scale)
        level == getDropLevel(hover)
    IN  IF mouse.x < mouse.y
        THEN <<Act("leftOf", <<item.id, hover.id, level>>)>>
        ELSE <<Act("above", <<item.id, hover.id, level>>)>>

cbC2(item, hover, ctx) ==
    LET mouse == relativeMousePosition(ctx.mouse, ctx.position, ctx.scale)
        level == getDropLevel(hover)
    IN  IF mouse.x > mouse.y
        THEN <<Act("rightOf", <<item.id, hover.id, level>>)>>
        ELSE <<Act("above", <<item.id, hover.id, level>>)>>

cbC3(item, hover, ctx) ==
    LET mouse == relativeMousePosition(ctx.mouse, ctx.position, ctx.scale)
        level == getDropLevel(hover)
    IN  IF mouse.x > mouse.y
        THEN <<Act("rightOf", <<item.id, hover.id, level>>)>>
        ELSE <<Act("below", <<item.id, hover.id, level>>)>>

cbC4(item, hover, ctx) ==
    LET mouse == relativeMousePosition(ctx.mouse, ctx.position, ctx.scale)
        level == getDropLevel(hover)
    IN  IF mouse.x < mouse.y
        THEN <<Act("leftOf", <<item.id, hover.id, level>>)>>
        ELSE <<Act("below", <<item.id, hover.id, level>>)>>

cbAH(item, hover, ctx) ==
    <<Act("above", <<item.id, hover.id, getDropLevel(hover)>>)>>

cbBH(item, hover, ctx) ==
    <<Act("below", <<item.id, hover.id, getDropLevel(hover)>>)>>

cbLH(item, hover, ctx) ==
    <<Act("leftOf", <<item.id, hover.id, getDropLevel(hover)>>)>>

cbRH(item, hover, ctx) ==
    <<Act("rightOf", <<item.id, hover.id, getDropLevel(hover)>>)>>

cbAA(item, hover, ctx) ==
    <<Act("above", <<item.id, hover.id,
        computeVertical(hover.levels.above, ctx.mouse, hover,
                        ctx.position, ctx.scale, TRUE)>>)>>

cbBA(item, hover, ctx) ==
    <<Act("below", <<item.id, hover.id,
        computeVertical(hover.levels.below, ctx.mouse, hover,
                        ctx.position, ctx.scale, FALSE)>>)>>

cbLA(item, hover, ctx) ==
    <<Act("leftOf", <<item.id, hover.id,
        computeHorizontal(ctx.mouse, ctx.position, hover, ctx.scale,
                          hover.levels.left, TRUE)>>)>>

cbRA(item, hover, ctx) ==
    <<Act("rightOf", <<item.id, hover.id,
        computeHorizontal(ctx.mouse, ctx.position, hover, ctx.scale,
                          hover.levels.right, FALSE)>>)>>

\* mutant: the dragged node's side is tested against 'right'
cbIL_oppositeSide(item, hover, ctx) ==
    IF isRow(item) \/ isRow(hover) THEN <<>>
    ELSE IF hover.inline # "none" \/ ~item.isInlineable
    THEN <<Act("leftOf", <<item.id, hover.id, 2>>)>>
    ELSE IF hover.hasInlineNeighbour # 0 /\ hover.hasInlineNeighbour # item.id
    THEN <<Act("leftOf", <<item.id, hover.id, 2>>)>>
    ELSE IF /\ hover.hasInlineNeighbour # 0
            /\ hover.hasInlineNeighbour = item.id
            /\ item.inline = "right"
    THEN <<Act("leftOf", <<item.id, hover.id, 2>>)>>
    ELSE <<Act("inlineLeft", <<item.id, hover.id>>)>>

cbIL(item, hover, ctx) ==
    IF isRow(item) \/ isRow(hover) THEN <<>>
    ELSE IF hover.inline # "none" \/ ~item.isInlineable
    THEN <<Act("leftOf", <<item.id, hover.id, 2>>)>>
    ELSE IF hover.hasInlineNeighbour # 0 /\ hover.hasInlineNeighbour # item.id
    THEN <<Act("leftOf", <<item.id, hover.id, 2>>)>>
    ELSE IF /\ hover.hasInlineNeighbour # 0
            /\ hover.hasInlineNeighbour = item.id
            /\ item.inline = "left"
    THEN <<Act("leftOf", <<item.id, hover.id, 2>>)>>
    ELSE <<Act("inlineLeft", <<item.id, hover.id>>)>>

cbIR(item, hover, ctx) ==
    IF isRow(item) \/ isRow(hover) THEN <<>>
    ELSE IF hover.inline # "none" \/ ~item.isInlineable
    THEN <<Act("rightOf", <<item.id, hover.id, 2>>)>>
    ELSE IF hover.hasInlineNeighbour # 0 /\ hover.hasInlineNeighbour # item.id
    THEN <<Act("rightOf", <<item.id, hover.id, 2>>)>>
    ELSE IF /\ hover.hasInlineNeighbour # 0
            /\ hover.hasInlineNeighbour = item.id
            /\ item.inline = "right"
    THEN <<Act("rightOf", <<item.id, hover.id, 2>>)>>
    ELSE <<Act("inlineRight", <<item.id, hover.id>>)>>

\* the default interpreter table applied to a zone code
defaultCallbacks(cell, item, hover, ctx) ==
    CASE cell = c.NO -> cbNO(item, hover, ctx)
      [] cell = c.C1 -> cbC1(item, hover, ctx)
      [] cell = c.C2 -> cbC2(item, hover, ctx)
      [] cell = c.C3 -> cbC3(item, hover, ctx)
      [] cell = c.C4 -> cbC4(item, hover, ctx)
      [] cell = c.AH -> cbAH(item, hover, ctx)
      [] cell = c.BH -> cbBH(item, hover, ctx)
      [] cell = c.LH -> cbLH(item, hover, ctx)
      [] cell = c.RH -> cbRH(item, hover, ctx)
      [] cell = c.AA -> cbAA(item, hover, ctx)
      [] cell = c.BA -> cbBA(item, hover, ctx)
      [] cell = c.LA -> cbLA(item, hover, ctx)
      [] cell = c.RA -> cbRA(item, hover, ctx)
      [] cell = c.IL -> cbIL(item, hover, ctx)
      [] cell = c.IR -> cbIR(item, hover, ctx)

\* the keys of the default interpreter table
defaultCallbackCodes == {classes[k] : k \in DOMAIN classes}

(***************************************************************************)
(* HoverService.  An interpreter table is the set of zone codes it         *)
(* registers; every table of the model takes its functions from the        *)
(* default interpreters.                                                   *)
(***************************************************************************)
HoverService(props) ==
    [matrices  |-> IF "matrices" \in DOMAIN props
                   THEN props.matrices ELSE defaultMatrices,
     callbacks |-> IF "callbacks" \in DOMAIN props
                   THEN props.callbacks ELSE defaultCallbackCodes]

(***************************************************************************)
(* The hover engine.  A memo slot is <<>> (null) or <<key>>.               *)
(***************************************************************************)
memoKey(drag, hover, actions, ctx) ==
    [item |-> drag.id, hover |-> hover.id, actions |-> actions, ctx |-> ctx]

\* deepEquals(all, last[m]); last[m] is undefined for a name without a slot
memoHit(all, lastNow, m) ==
    m \in DOMAIN lastNow /\ deepEquals(<<all>>, lastNow[m])

\* mutant: the key is never stored
memoStore_skipped(all, lastNow, m) == lastNow

\* mutant: every call stores its key in the slot of the default name
memoStore_sharedSlot(all, lastNow, m) == ("10x10" :> <<all>>) @@ lastNow

\* last[m] = all
memoStore(all, lastNow, m) == (m :> <<all>>) @@ lastNow

computeHover(drag, hover, actions, room, mouse, matrix, callbacks, m, lastNow) ==
    LET scale == getRoomScale(room, matrix)
        rows == Len(matrix)
        cells == Len(matrix[1])
        hoverCell == clampHoverCell(getMouseHoverCell(mouse, scale), rows, cells)
        cell == matrix[hoverCell.row + 1][hoverCell.cell + 1]
        ctx == [room |-> room, mouse |-> mouse, position |-> hoverCell,
                size |-> [rows |-> rows, cells |-> cells], scale |-> scale]
        all == memoKey(drag, hover, actions, ctx)
        found == cell \in callbacks
        hit == found /\ memoHit(all, lastNow, m)
        run == IF found THEN defaultCallbacks(cell, drag, hover, ctx) ELSE <<>>
    IN  [zone |-> cell,
         ctx |-> ctx,
         key |-> all,
         reached |-> found,
         suppressed |-> hit,
         sent |-> IF found /\ ~hit THEN run ELSE <<>>,
         would |-> run,
         last |-> IF found /\ ~hit THEN memoStore(all, lastNow, m) ELSE lastNow]

(***************************************************************************)
(* Inputs of the model.                                                    *)
(***************************************************************************)
Levels(a, b, l, r) == [above |-> a, below |-> b, left |-> l, right |-> r]

Cell(id, inline, neighbour, inlineable, levels) ==
    [id |-> id, kind |-> "cell", inline |-> inline,
     hasInlineNeighbour |-> neighbour, isInlineable |-> inlineable,
     levels |-> levels]

Row(id, levels) ==
    [id |-> id, kind |-> "row", inline |-> "none",
     hasInlineNeighbour |-> 0, isInlineable |-> FALSE, levels |-> levels]

Room(w, h) == [width |-> w, height |-> h]

\* a pointer position given in whole pixels
Px(x, y) == [x |-> x * Sub, y |-> y * Sub]

MatrixNames == DOMAIN defaultMatrices

\* a second engine: its table names the inline-free grid "10x10" and it
\* registers no interpreter for the NO zone
customMatrices ==
    [n \in MatrixNames |->
        IF n = "10x10" THEN defaultMatrices["10x10-no-inline"]
        ELSE defaultMatrices[n]]

Services ==
    ("default" :> HoverService([none |-> 0]))
    @@
    ("custom" :> HoverService([matrices |-> customMatrices,
                               callbacks |-> defaultCallbackCodes \ {c.NO}]))

Args(svc, drag, hover, actions, room, mouse, matrix) ==
    [svc |-> svc, drag |-> drag, hover |-> hover, actions |-> actions,
     room |-> room, mouse |-> mouse, matrix |-> matrix]

\* the coordinates of a pointer over, and up to Margin pixels around, a room
Coords(w) == (0 - Margin * Sub) .. ((w + Margin) * Sub)

\* the centres of the cells of a matrix laid over a room
CellCentres(room, matrix) ==
    {[x |-> ((2 * j + 1) * room.width * Sub) \div (2 * Len(matrix[1])),
      y |-> ((2 * i + 1) * room.height * Sub) \div (2 * Len(matrix))] :
        i \in 0 .. (Len(matrix) - 1), j \in 0 .. (Len(matrix[1]) - 1)}

BaseLevels == Levels(1, 2, 2, 1)
BaseDrag == Cell(1, "none", 0, TRUE, BaseLevels)
BaseHover == Cell(3, "none", 0, FALSE, BaseLevels)
BaseRoom == Room(60, 60)

DragNodes ==
    {Row(1, BaseLevels)} \cup
    {Cell(1, i, 0, b, BaseLevels) : i \in {"none", "left", "right"}, b \in BOOLEAN}

HoverNodes ==
    {Row(3, BaseLevels)} \cup
    {Cell(3, i, n, FALSE, BaseLevels) : i \in {"none", "left", "right"}, n \in 0..2}

LevelNodes ==
    UNION {{Row(3, Levels(a, a, a, a)),
            Cell(3, "none", 0, FALSE, Levels(a, a, a, a)),
            Cell(3, "right", 0, FALSE, Levels(a, a, a, a))} :
           a \in 0..MaxLevel}

\* every pointer position of a small room, over a plain and an inline cell
PointerFamily ==
    \E h \in {BaseHover, Cell(3, "left", 0, FALSE, BaseLevels)},
       x \in Coords(12), y \in Coords(20), m \in MatrixNames :
        event = Args("default", BaseDrag, h, "A1", Room(12, 20), [x |-> x, y |-> y], m)

\* every pair of node attributes, at the centre of every zone
NodeFamily ==
    \E m \in MatrixNames, d \in DragNodes, h \in HoverNodes :
        \E p \in CellCentres(BaseRoom, defaultMatrices[m]) :
            event = Args("default", d, h, "A1", BaseRoom, p, m)

\* the pointer crossing a room through its middle, over every level limit
LevelFamily ==
    \E w \in {20, 40}, h \in LevelNodes, m \in MatrixNames :
        \E t \in Coords(w), along \in BOOLEAN :
            event = Args("default", BaseDrag, h, "A1", Room(w, w),
                         IF along THEN [x |-> t, y |-> (w * Sub) \div 2]
                                  ELSE [x |-> (w * Sub) \div 2, y |-> t],
                         m)

\* the corner example of the specification
ExampleFamily ==
    \E p \in {Px(2, 8), Px(8, 2)} :
        event = Args("default", BaseDrag, BaseHover, "A1", Room(100, 100), p, "10x10")

\* the second engine, at the centre of every zone
CustomFamily ==
    \E m \in MatrixNames :
        \E p \in CellCentres(BaseRoom, customMatrices[m]) :
            event = Args("custom", BaseDrag, BaseHover, "A1", BaseRoom, p, m)

\* the events of a drag session: one event and its variations in one argument
SessionVariants ==
    {[drag |-> BaseDrag, hover |-> BaseHover, actions |-> "A1", mouse |-> Px(27, 9)],
     [drag |-> BaseDrag, hover |-> Cell(3, "left", 0, FALSE, BaseLevels), actions |-> "A1", mouse |-> Px(27, 9)],
     [drag |-> BaseDrag, hover |-> BaseHover, actions |-> "A1", mouse |-> Px(35, 35)],
     [drag |-> Row(2, BaseLevels), hover |-> BaseHover, actions |-> "A2", mouse |-> Px(27, 9)]}

HoverArgs ==
    {Args(s, v.drag, v.hover, v.actions, BaseRoom, v.mouse, m) :
        s \in DOMAIN Services, v \in SessionVariants, m \in MatrixNames}

(***************************************************************************)
(* The state machine.                                                      *)
(***************************************************************************)
NoCall ==
    [made |-> FALSE, m |-> "", prevM |-> "", zone |-> -1, ctx |-> <<>>,
     key |-> <<>>, reached |-> FALSE, suppressed |-> FALSE,
     sent |-> <<>>, would |-> <<>>]

NoLevel ==
    [width |-> 0, matrix |-> "", levels |-> 0, m1 |-> 0, m2 |-> 0,
     done |-> FALSE, p1 |-> 0, p2 |-> 0, at1 |-> 0, at2 |-> 0]

\* the module as loaded: `last` has the two slots of its initialiser
Loaded ==
    /\ last = ("10x10" :> <<>> @@ "10x10-no-inline" :> <<>>)
    /\ filler = [n \in MatrixNames |-> <<>>]
    /\ call = NoCall

Init ==
    /\ Loaded
    /\ event \in HoverArgs
    /\ lv = NoLevel

InitRepeat ==
    /\ Loaded
    /\ \/ PointerFamily
       \/ NodeFamily
       \/ LevelFamily
       \/ ExampleFamily
       \/ CustomFamily
    /\ lv = NoLevel

InitLevel ==
    /\ Loaded
    /\ event = Args("default", BaseDrag, BaseHover, "A1", BaseRoom, Px(27, 9), "10x10")
    /\ \E w \in {20, 40, 60}, m \in {"6x6", "10x10"}, l \in 0..MaxLevel :
          \E m1 \in Coords(w), m2 \in Coords(w) :
              /\ m1 <= m2
              /\ lv = [NoLevel EXCEPT !.width = w, !.matrix = m, !.levels = l,
                                      !.m1 = m1, !.m2 = m2]

\* HoverService.hover
hover(a) ==
    LET svc == Services[a.svc]
        r == computeHover(a.drag, a.hover, a.actions, a.room, a.mouse,
                          svc.matrices[a.matrix], svc.callbacks, a.matrix, last)
    IN  /\ last' = r.last
        /\ call' = [made |-> TRUE, m |-> a.matrix, prevM |-> call.m,
                    zone |-> r.zone, ctx |-> r.ctx, key |-> r.key,
                    reached |-> r.reached, suppressed |-> r.suppressed,
                    sent |-> r.sent, would |-> r.would]
        /\ filler' = IF r.reached /\ ~r.suppressed
                     THEN [filler EXCEPT ![a.matrix] =
                              <<[key |-> r.key, sent |-> r.sent]>>]
                     ELSE filler
        /\ event' = a
        /\ UNCHANGED lv

\* a pointer event of the drag session
Hover == \E a \in HoverArgs : hover(a)

\* the same pointer event delivered again
HoverAgain == hover(event)

\* the level of one coordinate of two pointer positions
LevelOf ==
    /\ ~lv.done
    /\ LET matrix == defaultMatrices[lv.matrix]
           room == Room(lv.width, lv.width)
           scale == getRoomScale(room, matrix)
           rel(t) ==
               LET mouse == [x |-> t, y |-> t]
                   pos == clampHoverCell(getMouseHoverCell(mouse, scale),
                                         Len(matrix), Len(matrix[1]))
               IN  relativeMousePosition(mouse, pos, scale).x
       IN  lv' = [lv EXCEPT !.done = TRUE,
                            !.p1 = rel(lv.m1), !.p2 = rel(lv.m2),
                            !.at1 = computeLevel(scale.x, lv.levels, rel(lv.m1)),
                            !.at2 = computeLevel(scale.x, lv.levels, rel(lv.m2))]
    /\ UNCHANGED <<last, filler, call, event>>

Next == Hover
NextRepeat == HoverAgain
NextLevel == LevelOf

Spec == Init /\ [][Next]_vars
SpecRepeat == InitRepeat /\ [][NextRepeat]_vars
SpecLevel == InitLevel /\ [][NextLevel]_vars

(***************************************************************************)
(* Vocabulary of the properties.                                           *)
(***************************************************************************)
Methods ==
    {"clear", "above", "below", "leftOf", "rightOf", "inlineLeft", "inlineRight"}

\* the matrix the engine of the latest call looked the zone up in
MatrixInUse == Services[event.svc].matrices[event.matrix]

\* the interpreter of the latest call ran, or would have run but for the memo
Interpreted == call.made /\ call.reached

\* one call of a directional method with a level
Directional(method, level) ==
    <<Act(method, <<event.drag.id, event.hover.id, level>>)>>

\* the exact pointer offset from the located cell's corner, as numerators
\* over the common denominator Sub * cells * rows
OffsetX ==
    (event.mouse.x * Len(MatrixInUse[1])
        - call.ctx.position.cell * event.room.width * Sub) * Len(MatrixInUse)
OffsetY ==
    (event.mouse.y * Len(MatrixInUse)
        - call.ctx.position.row * event.room.height * Sub) * Len(MatrixInUse[1])
OffsetDen == Sub * Len(MatrixInUse) * Len(MatrixInUse[1])

\* the integer nearest to n / d, the upper one of two equally near
Nearest(n, d) ==
    CHOOSE k \in (0 - (Margin + 2)) .. (event.room.width + event.room.height + Margin + 2) :
        (2 * k - 1) * d <= 2 * n /\ 2 * n < (2 * k + 1) * d

\* the pointer of the latest call lies inside the room
InRoom ==
    /\ 0 <= event.mouse.x /\ event.mouse.x < event.room.width * Sub
    /\ 0 <= event.mouse.y /\ event.mouse.y < event.room.height * Sub

InlineLevel == IF event.hover.kind = "cell" /\ event.hover.inline # "none" THEN 1 ELSE 0

(***************************************************************************)
(* C1.  Every hover() invocation calls at most one method of the           *)
(* action-dispatch object, a method of {clear, above, below, leftOf,        *)
(* rightOf, inlineLeft, inlineRight}; it calls none on a classification     *)
(* miss and none when the memo suppresses the call.                         *)
(***************************************************************************)
C1_AtMostOneDispatch ==
    call.made =>
        /\ Len(call.sent) <= 1
        /\ \A i \in 1..Len(call.sent) : call.sent[i].method \in Methods
        /\ ~call.reached => call.sent = <<>>
        /\ call.suppressed => call.sent = <<>>

\* a corner zone of the default engine has dispatched its one action
C1_Witness ==
    /\ call.made /\ event.svc = "default"
    /\ call.zone \in {c.C1, c.C2, c.C3, c.C4}
    /\ Len(call.sent) = 1

(***************************************************************************)
(* C2 as stated.  Two consecutive hover() calls with identical arguments    *)
(* produce exactly one action dispatch in total: the first call dispatches  *)
(* one action and the second is suppressed.  (Stated for a first call that  *)
(* reaches an interpreter and is not itself suppressed.)                    *)
(***************************************************************************)
C2_ExactlyOneDispatch ==
    [][(Interpreted /\ ~call.suppressed /\ event' = event)
          => /\ Len(call.sent) = 1
             /\ call'.suppressed
             /\ Len(call.sent) + Len(call'.sent) = 1]_vars

(***************************************************************************)
(* C2 amended.  Of two consecutive hover() calls with identical arguments,  *)
(* the first of which reaches an interpreter and is not itself suppressed,  *)
(* the second is suppressed and dispatches nothing; the first dispatches    *)
(* exactly one action, except that it dispatches none when its zone is IL   *)
(* or IR and the dragged or the hovered node is a row.                      *)
(***************************************************************************)
C2_SecondCallSuppressed ==
    [][(Interpreted /\ ~call.suppressed /\ event' = event)
          => /\ call'.suppressed
             /\ call'.sent = <<>>
             /\ Len(call.sent) <= 1
             /\ Len(call.sent) = 0 <=>
                    /\ call.zone \in {c.IL, c.IR}
                    /\ (event.drag.kind = "row" \/ event.hover.kind = "row")]_vars

\* the second of two identical calls was suppressed after the first dispatched
C2_Witness ==
    /\ call.made /\ call.suppressed /\ call.prevM = call.m
    /\ Len(call.would) = 1

(***************************************************************************)
(* C3.  The memo holds one slot per matrix name: a call that reaches an    *)
(* interpreter is suppressed if and only if its key equals the key of the  *)
(* most recent call with the same matrix name that ran its interpreter;    *)
(* calls with other names leave that slot alone, and a call that runs its  *)
(* interpreter overwrites the slot of its own name only, also for "6x6",   *)
(* which has no slot at the start.                                         *)
(***************************************************************************)
C3_SlotPerMatrixName ==
    [][(call'.made /\ call'.reached) =>
          LET m == call'.m
          IN  /\ call'.suppressed <=>
                    (filler[m] # <<>> /\ filler[m][1].key = call'.key)
              /\ \A n \in MatrixNames \ {m} :
                    /\ n \in DOMAIN last' <=> n \in DOMAIN last
                    /\ n \in DOMAIN last => last'[n] = last[n]
              /\ ~call'.suppressed =>
                    (m \in DOMAIN last' /\ last'[m] = <<call'.key>>)
              /\ call'.suppressed => last' = last]_vars

\* a "6x6" call is suppressed although the call before it used another name
C3_Witness ==
    /\ call.made /\ call.suppressed
    /\ call.m = "6x6" /\ call.prevM = "10x10"
    /\ last["10x10"] # <<>> /\ last["10x10"] # last["6x6"]

(***************************************************************************)
(* C4.  For every pointer position, inside or outside the room, the cell   *)
(* index used for the zone lookup lies inside the matrix; a position left  *)
(* of or above the room maps to index 0, a position right of or below it   *)
(* to the last index.                                                      *)
(***************************************************************************)
C4_IndexInsideMatrix ==
    call.made =>
        LET rows == Len(MatrixInUse)
            cells == Len(MatrixInUse[1])
            pos == call.ctx.position
        IN  /\ 0 <= pos.row /\ pos.row <= rows - 1
            /\ 0 <= pos.cell /\ pos.cell <= cells - 1
            /\ event.mouse.x < 0 => pos.cell = 0
            /\ event.mouse.y < 0 => pos.row = 0
            /\ event.mouse.x >= event.room.width * Sub => pos.cell = cells - 1
            /\ event.mouse.y >= event.room.height * Sub => pos.row = rows - 1

\* a pointer left of and below the room has been located
C4_Witness ==
    /\ call.made
    /\ event.mouse.x < 0 /\ event.mouse.y > event.room.height * Sub
    /\ call.ctx.position.cell = 0
    /\ call.ctx.position.row = Len(MatrixInUse) - 1

(***************************************************************************)
(* C5.  computeLevel(size, levels, position) returns an integer in         *)
(* [0, levels] for every position relativeMousePosition can hand it,       *)
(* offsets outside the cell included, in both regimes.                     *)
(***************************************************************************)
C5_LevelInRange ==
    lv.done =>
        /\ 0 <= lv.at1 /\ lv.at1 <= lv.levels
        /\ 0 <= lv.at2 /\ lv.at2 <= lv.levels

(***************************************************************************)
(* C6.  In the geometric regime, size > (levels + 1) * 2, computeLevel is  *)
(* non-decreasing in position: p1 <= p2 implies level(p1) <= level(p2).    *)
(***************************************************************************)
C6_LevelMonotone ==
    (/\ lv.done
     /\ lv.width > (lv.levels + 1) * 2 * Len(defaultMatrices[lv.matrix][1])
     /\ lv.p1 <= lv.p2)
        => lv.at1 <= lv.at2

(***************************************************************************)
(* C7 as stated.  IL and IR dispatch nothing when the dragged or hovered   *)
(* node is a row.  Otherwise they fall back to leftOf (IL) or rightOf (IR) *)
(* at level 2 when the hovered node is inline, or the dragged node is not  *)
(* inline-capable, or the hovered node has an inline neighbour other than  *)
(* the dragged node, or its inline neighbour is the dragged node and that  *)
(* node is inline on the side OPPOSITE to the zone; else they dispatch     *)
(* inlineLeft / inlineRight without a level.                               *)
(***************************************************************************)
InlineRule(blockingSide) ==
    LET dragged == event.drag
        hovered == event.hover
        left == call.zone = c.IL
        fallback ==
            \/ hovered.inline # "none"
            \/ ~dragged.isInlineable
            \/ /\ hovered.hasInlineNeighbour # 0
               /\ hovered.hasInlineNeighbour # dragged.id
            \/ /\ hovered.hasInlineNeighbour = dragged.id
               /\ dragged.inline = blockingSide
    IN  IF dragged.kind = "row" \/ hovered.kind = "row" THEN call.would = <<>>
        ELSE IF fallback
        THEN call.would = Directional(IF left THEN "leftOf" ELSE "rightOf", 2)
        ELSE call.would =
                <<Act(IF left THEN "inlineLeft" ELSE "inlineRight",
                      <<dragged.id, hovered.id>>)>>

C7_OppositeSideFallsBack ==
    (Interpreted /\ call.zone \in {c.IL, c.IR}) =>
        InlineRule(IF call.zone = c.IL THEN "right" ELSE "left")

(***************************************************************************)
(* C7 amended.  As above, but the last disqualifier is: the hovered node's *)
(* inline neighbour is the dragged node and the dragged node is inline on  *)
(* the SAME side as the zone ('left' for IL, 'right' for IR).              *)
(***************************************************************************)
C7_SameSideFallsBack ==
    (Interpreted /\ call.zone \in {c.IL, c.IR}) =>
        InlineRule(IF call.zone = c.IL THEN "left" ELSE "right")

\* the dragged node already sits inline left of the hovered node, zone IL
C7_Witness ==
    /\ Interpreted /\ call.zone = c.IL
    /\ event.drag.kind = "cell" /\ event.drag.isInlineable
    /\ event.drag.inline = "left"
    /\ event.hover.kind = "cell" /\ event.hover.inline = "none"
    /\ event.hover.hasInlineNeighbour = event.drag.id
    /\ call.would = Directional("leftOf", 2)

(***************************************************************************)
(* C8 as stated.  With (x, y) the pointer offset from the cell's top-left  *)
(* corner, zone C1 dispatches leftOf if x < y else above, C2 rightOf if    *)
(* x > y else above, C3 rightOf if x > y else below, C4 leftOf if x < y    *)
(* else below; the level is 0, or 1 over an inline cell.  (Stated for a    *)
(* pointer inside the room.)                                               *)
(***************************************************************************)
CornerRule(x, y) ==
    call.would =
        CASE call.zone = c.C1 ->
                Directional(IF x < y THEN "leftOf" ELSE "above", InlineLevel)
          [] call.zone = c.C2 ->
                Directional(IF x > y THEN "rightOf" ELSE "above", InlineLevel)
          [] call.zone = c.C3 ->
                Directional(IF x > y THEN "rightOf" ELSE "below", InlineLevel)
          [] call.zone = c.C4 ->
                Directional(IF x < y THEN "leftOf" ELSE "below", InlineLevel)

CornerExample ==
    (/\ event.matrix = "10x10" /\ event.svc = "default"
     /\ event.room = Room(100, 100) /\ event.hover.inline = "none")
        => /\ event.mouse = Px(2, 8) => call.would = Directional("leftOf", 0)
           /\ event.mouse = Px(8, 2) => call.would = Directional("above", 0)

C8_DiagonalOfOffset ==
    (Interpreted /\ InRoom /\ call.zone \in {c.C1, c.C2, c.C3, c.C4}) =>
        CornerRule(OffsetX, OffsetY) /\ CornerExample

(***************************************************************************)
(* C8 amended.  The same, with x and y the offsets rounded to the nearest  *)
(* integer (a half rounds up): offsets that round to the same integer are  *)
(* a tie and go to above / below.                                          *)
(***************************************************************************)
C8_DiagonalOfRoundedOffset ==
    (Interpreted /\ call.zone \in {c.C1, c.C2, c.C3, c.C4}) =>
        /\ CornerRule(Nearest(OffsetX, OffsetDen), Nearest(OffsetY, OffsetDen))
        /\ CornerExample

\* the example: matrix 10x10, room 100x100, pointer (2, 8), leftOf at level 0
C8_Witness ==
    /\ Interpreted /\ call.zone = c.C1
    /\ event.room = Room(100, 100) /\ event.mouse = Px(2, 8)
    /\ call.would = Directional("leftOf", 0)

(***************************************************************************)
(* C9.  For the ancestor zones AA, BA, LA, RA the level passed to above,   *)
(* below, leftOf, rightOf lies in [0, L], L the hovered node's maximum     *)
(* level for that direction (0 included), for every kind of hovered node   *)
(* and every pointer offset; over a row the level is L.  (Stated for a     *)
(* pointer inside the room.)                                               *)
(***************************************************************************)
C9_AncestorLevelInRange ==
    (Interpreted /\ InRoom /\ call.zone \in {c.AA, c.BA, c.LA, c.RA}) =>
        LET method == CASE call.zone = c.AA -> "above"
                        [] call.zone = c.BA -> "below"
                        [] call.zone = c.LA -> "leftOf"
                        [] call.zone = c.RA -> "rightOf"
            L == CASE call.zone = c.AA -> event.hover.levels.above
                   [] call.zone = c.BA -> event.hover.levels.below
                   [] call.zone = c.LA -> event.hover.levels.left
                   [] call.zone = c.RA -> event.hover.levels.right
        IN  \E level \in 0..L :
                /\ call.would = Directional(method, level)
                /\ event.hover.kind = "row" => level = L

(***************************************************************************)
(* C10.  Memo suppression never hides a changed intent: whenever a call is *)
(* suppressed, its interpreter would have dispatched the same action with  *)
(* the same level as the call that filled the memo slot.                   *)
(***************************************************************************)
C10_SuppressedSameIntent ==
    (call.made /\ call.suppressed) =>
        /\ filler[call.m] # <<>>
        /\ call.would = filler[call.m][1].sent
====
